---- MODULE Spec2Model ----
(***************************************************************************)
(* InkFrame firmware (src/src/main.cpp): the device/server synchronisation *)
(* loop.  One thread of control runs setup() and then loop() forever;      *)
(* loop() checks the button (toggleMode), then the poll timer              *)
(* (pollServerForInstructions); both fetch bitmaps (fetchBitmap) straight  *)
(* into the global imageBuffer.  The server, the transport, the button and *)
(* the passing of time are the environment: every answer they can give is  *)
(* drawn with \E from a small set.                                         *)
(***************************************************************************)
EXTENDS Integers, Sequences, FiniteSets, TLC

\* ------------------------------------------------------------------------
\* Program constants
\* ------------------------------------------------------------------------
DISPLAY_WIDTH == 200
DISPLAY_HEIGHT == 200
\* the three delays of setup() before setupWiFi(): delay(500), delay(100), delay(2000)
SetupDelayA == 500
SetupDelayB == 100
SetupDelayC == 2000
\* loop(): millis() - lastButtonPress > 300
DebounceMs == 300
\* loop(): delay(50)
LoopDelayMs == 50
\* loop(): nextPollSeconds * 1000UL
MsPerSecond == 1000
\* fetchBitmap: millis() - startTime < 10000
ReadDeadlineMs == 10000
\* int nextPollSeconds = 30, and the default of doc["n"] | 30
DefaultPollSeconds == 30

\* int expectedSize = DISPLAY_WIDTH * DISPLAY_HEIGHT / 8, also the size of imageBuffer
ExpectedSize == (DISPLAY_WIDTH * DISPLAY_HEIGHT) \div 8

\* ------------------------------------------------------------------------
\* Bounds of the model
\* ------------------------------------------------------------------------
\* time advances in steps of TickMs milliseconds, at most MaxTicks times
TickMs == 20000
MaxTicks == 2
\* the server's image indices and totals are drawn from 0..MaxIndex, 0..MaxTotal
MaxIndex == 1
MaxTotal == 1
\* a body that stops short: the bytes a short transfer delivers
ShortBody == 4990
\* stream->available() when the body holds more than the rest of the frame
LongAvail == 6000

\* ------------------------------------------------------------------------
\* unsigned long (32 bits) as two 16-bit limbs <<high, low>>
\* ------------------------------------------------------------------------
Limb == 65536

\* (unsigned long) n for an int n in -2^31 .. 2^31-1
U32(n) == << (n \div Limb) % Limb, n % Limb >>

U32Add(a, b) ==
    LET lo == a[2] + b[2]
    IN  << (a[1] + b[1] + (lo \div Limb)) % Limb, lo % Limb >>

\* a - b modulo 2^32
U32Sub(a, b) ==
    LET lo == a[2] - b[2]
    IN  << (a[1] - b[1] + (lo \div Limb)) % Limb, lo % Limb >>

\* a * k modulo 2^32, for 0 <= k < 2^15
U32Mul(a, k) ==
    LET lo == a[2] * k
    IN  << (a[1] * k + (lo \div Limb)) % Limb, lo % Limb >>

U32Gt(a, b) == a[1] > b[1] \/ (a[1] = b[1] /\ a[2] > b[2])

U32Lt(a, b) == U32Gt(b, a)

\* ------------------------------------------------------------------------
\* imageBuffer: ExpectedSize bytes, kept as runs of bytes of the same origin.
\* A byte is named by the response body it came from (tag); byte p of a
\* body is always stored at offset p, so the pair (offset, tag) is the
\* byte.  Tag 0 is the zero-initialised global.
\* ------------------------------------------------------------------------
Run(n, tag) == [n |-> n, tag |-> tag]

RECURSIVE BufLen(_)
BufLen(b) == IF b = << >> THEN 0 ELSE b[1].n + BufLen(Tail(b))

\* the first k bytes of b
RECURSIVE BufTake(_, _)
BufTake(b, k) ==
    IF k <= 0 \/ b = << >> THEN << >>
    ELSE IF b[1].n <= k THEN << b[1] >> \o BufTake(Tail(b), k - b[1].n)
    ELSE << Run(k, b[1].tag) >>

\* b without its first k bytes
RECURSIVE BufDrop(_, _)
BufDrop(b, k) ==
    IF b = << >> THEN << >>
    ELSE IF k <= 0 THEN b
    ELSE IF b[1].n <= k THEN BufDrop(Tail(b), k - b[1].n)
    ELSE << Run(b[1].n - k, b[1].tag) >> \o Tail(b)

\* adjacent runs of one origin are one run: equal buffers have equal run lists
RECURSIVE Coalesce(_)
Coalesce(b) ==
    IF Len(b) <= 1 THEN b
    ELSE IF b[1].tag = b[2].tag
         THEN Coalesce(<< Run(b[1].n + b[2].n, b[1].tag) >> \o Tail(Tail(b)))
         ELSE << b[1] >> \o Coalesce(Tail(b))

BufTags(b) == { b[i].tag : i \in 1..Len(b) }

\* stream->read(imageBuffer + bytesRead, toRead) returning c > 0:
\* c bytes of the body land at offsets bytesRead .. bytesRead + c - 1
StreamWrite(b, bytesRead, c, tag) ==
    Coalesce(BufTake(b, bytesRead) \o << Run(c, tag) >> \o BufDrop(b, bytesRead + c))

\* the tag of a new response body: no byte of the buffer carries it
FreshTag(b) == CHOOSE t \in 1..(Len(b) + 1) : t \notin BufTags(b)

Min(a, b) == IF a < b THEN a ELSE b

\* ------------------------------------------------------------------------
\* State
\* ------------------------------------------------------------------------
VARIABLES
    currentMode,            \* DisplayMode currentMode
    currentImageIndex,      \* int currentImageIndex
    totalImages,            \* int totalImages
    serverRefreshVersion,   \* int serverRefreshVersion
    nextPollSeconds,        \* int nextPollSeconds
    lastPollTime,           \* unsigned long lastPollTime
    imageBuffer,            \* uint8_t imageBuffer[ExpectedSize]
    hasImage,               \* bool hasImage
    wifiConnected,          \* bool wifiConnected
    lastButtonState,        \* static bool lastButtonState (loop)
    now,                    \* millis()
    ticks,                  \* how many times the clock has advanced
    longRun,                \* the clock of the run: see Tick
    pc,                     \* where the thread of control is
    pollCaller,             \* who called pollServerForInstructions
    pollResult,             \* its return value
    fetch,                  \* fetchBitmap's arguments, locals and return value
    cycle,                  \* the handler under way: what it was given and did
    lastToggle              \* the toggle that ended, while no poll has followed it

device == << currentMode, currentImageIndex, totalImages, serverRefreshVersion,
             nextPollSeconds >>
clock == << now, ticks, longRun >>
vars == << currentMode, currentImageIndex, totalImages, serverRefreshVersion,
           nextPollSeconds, lastPollTime, imageBuffer, hasImage, wifiConnected,
           lastButtonState, now, ticks, longRun, pc, pollCaller,
           pollResult, fetch, cycle, lastToggle >>

\* the five fields the spec calls DeviceState
DeviceState ==
    [ mode |-> currentMode, imageIndex |-> currentImageIndex,
      totalImages |-> totalImages, refreshVersion |-> serverRefreshVersion,
      pollIntervalSeconds |-> nextPollSeconds ]

\* ------------------------------------------------------------------------
\* What the environment can answer
\* ------------------------------------------------------------------------
\* the least "n" whose product with 1000 is beyond 32 bits: 4294968000 is
\* 704 modulo 2^32
LongPollSeconds == 4294968

\* the "n" field of a poll response, an int
PollSeconds == { -1, 0, DefaultPollSeconds, LongPollSeconds }

\* the "v" field of a poll response
Versions == { 5 }

\* a decoded poll response {"r","m","v","n","i","t"}; an absent field takes
\* its default (false, "dashboard", 0, 30, 0, 0), which is one of these
PollResponses ==
    [ r : BOOLEAN, m : { "dashboard", "photo" }, v : Versions,
      n : PollSeconds, i : 0..MaxIndex, t : 0..MaxTotal ]

\* http.GET() of the poll: 200 with a JSON document that parses, 200 with one
\* that does not, 404, another status, a transport error (negative code)
PollFailures == { "malformed", "404", "status", "transport" }

\* http.GET() of a bitmap: a status other than 200 and 404 includes transport errors
\* the X-Image-Total header: absent (<< >>), or << its value as toInt() reads it >>
NoHeader == << >>
TotalHeaders == { NoHeader } \cup { << t >> : t \in 0..MaxTotal }
\* http.getSize(): the expected size, -1 (chunked/unknown), or another length
DeclaredLengths == { ExpectedSize, -1, ShortBody }
\* stream->available() in one iteration of the streaming loop
Available == { ShortBody, LongAvail }

\* status: what http.GET() returned ("200", "404", or "error" for any other
\* status or a transport error); len: http.getSize() of a 200
NoFetch ==
    [ index |-> 0, mode |-> "none", ret |-> "none", status |-> "none", len |-> 0,
      bytesRead |-> 0, startTime |-> U32(0), tag |-> 0, result |-> FALSE,
      before |-> << >> ]

NoResponse == [ r |-> FALSE, m |-> "none", v |-> 0, n |-> 0, i |-> 0, t |-> 0 ]

NoState ==
    [ mode |-> "none", imageIndex |-> 0, totalImages |-> 0, refreshVersion |-> 0,
      pollIntervalSeconds |-> 0 ]

\* kind: "toggle" or "poll"; pre: DeviceState when toggleMode was entered;
\* answer: what the poll request got ("decoded" with resp, or one of
\* PollFailures); events: the assignments to currentMode, the requests sent and
\* the screens drawn so far, in order
NoCycle ==
    [ kind |-> "none", pre |-> NoState, answer |-> "none", resp |-> NoResponse,
      events |-> << >> ]

\* the toggle that ended last: the mode and index it started from and its events
NoToggle == [ valid |-> FALSE, mode0 |-> "none", index0 |-> 0, events |-> << >> ]

\* ------------------------------------------------------------------------
\* Init: the globals as initialised (lines 78-100), before setup() runs
\* ------------------------------------------------------------------------
Globals ==
    /\ currentMode = "MODE_DASHBOARD"
    /\ currentImageIndex = 0
    /\ totalImages = 0
    /\ serverRefreshVersion = 0
    /\ nextPollSeconds = DefaultPollSeconds
    /\ lastPollTime = U32(0)
    /\ imageBuffer = << Run(ExpectedSize, 0) >>
    /\ hasImage = FALSE
    /\ wifiConnected = FALSE
    /\ lastButtonState = "HIGH"
    /\ now = U32(0)
    /\ ticks = 0
    /\ pc = "setup"
    /\ pollCaller = "none"
    /\ pollResult = FALSE
    /\ fetch = NoFetch
    /\ cycle = NoCycle
    /\ lastToggle = NoToggle

\* the first minute after the start, in steps of TickMs
Init == Globals /\ longRun = FALSE

\* the life of the device, in steps of WrapTick: millis() wraps again and again
LongRunInit == Globals /\ longRun = TRUE

\* ------------------------------------------------------------------------
\* Helpers of the handlers
\* ------------------------------------------------------------------------
\* a handler starts
BeginCycle(kind, pre) == [ NoCycle EXCEPT !.kind = kind, !.pre = pre ]

\* currentMode = mode
ModeEvent(mode) == [ op |-> "mode", mode |-> mode, index |-> 0 ]

Answered(c, answer, resp) == [ c EXCEPT !.answer = answer, !.resp = resp ]

Logged(c, e) == [ c EXCEPT !.events = Append(@, e) ]

\* notifyServerModeChange(mode): POST .../set-mode {"mode": mode}; the answer
\* is only printed
NotifyEvent(mode) == [ op |-> "notify", mode |-> mode, index |-> 0 ]

\* fetchBitmap(index, mode) is entered: http.begin .. http.GET() is next
FetchEvent(mode, index) == [ op |-> "fetch", mode |-> mode, index |-> index ]

EnterFetch(index, mode, ret) ==
    [ NoFetch EXCEPT !.index = index, !.mode = mode, !.ret = ret,
                     !.before = imageBuffer ]

\* drawImage(): if (!hasImage) return; otherwise the panel shows imageBuffer
DrawImageEvent == [ op |-> "drawImage", mode |-> "", index |-> 0 ]

\* drawDashboard(): the locally drawn fallback screen
DrawDashboardEvent == [ op |-> "drawDashboard", mode |-> "", index |-> 0 ]

\* half the range of millis(), 2^31 ms
WrapTick == << Limb \div 2, 0 >>

\* the clock may advance while the thread blocks.  In a short run it advances
\* by TickMs, MaxTicks times; in a long run it advances by WrapTick without
\* end and is back at the same value every second step.
CanTick == longRun \/ ticks < MaxTicks

Tick ==
    /\ CanTick
    /\ now' = U32Add(now, IF longRun THEN WrapTick ELSE U32(TickMs))
    /\ ticks' = IF longRun THEN ticks ELSE ticks + 1
    /\ UNCHANGED longRun

\* ------------------------------------------------------------------------
\* setup()
\* ------------------------------------------------------------------------
\* setup() up to setupWiFi(): the serial banner, the three delays, the
\* display initialised and the test screen drawn.  (With the BOOT button held
\* the device clears its credentials and restarts: it starts again from Init.)
Setup ==
    /\ pc = "setup"
    /\ now' = U32Add(now, U32(SetupDelayA + SetupDelayB + SetupDelayC))
    /\ pc' = "setupWiFi"
    /\ UNCHANGED << device, lastPollTime, imageBuffer, hasImage, wifiConnected,
                    lastButtonState, ticks, longRun, pollCaller, pollResult, fetch, cycle,
                    lastToggle >>

\* fetchDeviceSettings(): GET .../image-info; on 200 with a document that parses,
\* totalImages = doc["total"] | 0 and currentImageIndex = doc["currentIndex"] | 0
\* (imageRotateInterval is read by nothing).  s is <<total, currentIndex>>, or
\* << >> when the request or the parse failed.
SettingsAnswers == { << >> } \cup ((0..MaxTotal) \X (0..MaxIndex))

SettingsTotal(s) == IF s = << >> THEN totalImages ELSE s[1]

SettingsIndex(s) == IF s = << >> THEN currentImageIndex ELSE s[2]

\* setupWiFi(), autoConnect failed: offline mode
SetupWiFiOffline ==
    /\ pc = "setupWiFi"
    /\ wifiConnected' = FALSE
    /\ pc' = "loop"
    /\ UNCHANGED << device, lastPollTime, imageBuffer, hasImage, lastButtonState, clock,
                    pollCaller, pollResult, fetch, cycle, lastToggle >>

\* setupWiFi(), autoConnect succeeded: registerDevice() (changes no global),
\* fetchDeviceSettings(), then the initial pollServerForInstructions() is entered
SetupWiFiConnected ==
    /\ pc = "setupWiFi"
    /\ \E s \in SettingsAnswers :
        /\ totalImages' = SettingsTotal(s)
        /\ currentImageIndex' = SettingsIndex(s)
    /\ cycle' = BeginCycle("poll", NoState)
    /\ wifiConnected' = TRUE
    /\ pc' = "poll"
    /\ pollCaller' = "setup"
    /\ UNCHANGED << currentMode, serverRefreshVersion, nextPollSeconds,
                    lastPollTime, imageBuffer, hasImage, lastButtonState, clock,
                    pollResult, fetch,
                    lastToggle >>

\* ------------------------------------------------------------------------
\* pollServerForInstructions()
\* ------------------------------------------------------------------------
\* DisplayMode newMode = (strcmp(mode, "photo") == 0) ? MODE_IMAGE : MODE_DASHBOARD
NewMode(m) == IF m = "photo" THEN "MODE_IMAGE" ELSE "MODE_DASHBOARD"

\* if (shouldRefresh || modeChanged || indexChanged)
RefreshNeeded(shouldRefresh, modeChanged, indexChanged) ==
    shouldRefresh \/ modeChanged \/ indexChanged

\* Faulty variant of PollFetchesImage: fetchImage is called whatever totalImages is
PollFetchesImageAlways(total) == total >= 0

\* if (totalImages > 0 && fetchImage(currentImageIndex)): whether fetchImage is called
PollFetchesImage(total) == total > 0

\* Faulty variant of PollFailed: a 404 zeroes totalImages, as fetchBitmap's does
PollFailedZeroesTotal ==
    /\ pc = "poll"
    /\ \E f \in PollFailures :
        /\ cycle' = Answered(cycle, f, NoResponse)
        /\ totalImages' = IF f = "404" THEN 0 ELSE totalImages
    /\ pollResult' = FALSE
    /\ pc' = "pollRet"
    /\ UNCHANGED << currentMode, currentImageIndex, serverRefreshVersion,
                    nextPollSeconds, lastPollTime, imageBuffer, hasImage,
                    wifiConnected, lastButtonState, clock, pollCaller, fetch,
                    lastToggle >>

\* http.GET() is not 200, or the document does not parse: the code is printed,
\* http.end(), return false
PollFailed ==
    /\ pc = "poll"
    /\ \E f \in PollFailures : cycle' = Answered(cycle, f, NoResponse)
    /\ pollResult' = FALSE
    /\ pc' = "pollRet"
    /\ UNCHANGED << device, lastPollTime, imageBuffer, hasImage, wifiConnected,
                    lastButtonState, clock, pollCaller, fetch,
                    lastToggle >>

\* Faulty variant of PollNoRefresh: totalImages is adopted only on a refresh
PollNoRefreshKeepsTotal(r) ==
    /\ ~RefreshNeeded(r.r, NewMode(r.m) # currentMode, r.i # currentImageIndex)
    /\ cycle' = Answered(cycle, "decoded", r)
    /\ serverRefreshVersion' = r.v
    /\ nextPollSeconds' = r.n
    /\ currentImageIndex' = r.i
    /\ pollResult' = FALSE
    /\ pc' = "pollRet"
    /\ UNCHANGED << currentMode, totalImages, lastPollTime, imageBuffer, hasImage,
                    wifiConnected, lastButtonState, clock, pollCaller, fetch,
                    lastToggle >>

\* 200 and the document parses, and nothing is to be refreshed: the three
\* fields and the index are adopted, http.end(), return false
PollNoRefresh(r) ==
    /\ ~RefreshNeeded(r.r, NewMode(r.m) # currentMode, r.i # currentImageIndex)
    /\ cycle' = Answered(cycle, "decoded", r)
    /\ serverRefreshVersion' = r.v
    /\ nextPollSeconds' = r.n
    /\ totalImages' = r.t
    /\ currentImageIndex' = r.i
    /\ pollResult' = FALSE
    /\ pc' = "pollRet"
    /\ UNCHANGED << currentMode, lastPollTime, imageBuffer, hasImage,
                    wifiConnected, lastButtonState, clock, pollCaller, fetch,
                    lastToggle >>

\* 200 and the document parses, and the display is to be refreshed: the
\* fields are adopted, currentMode = newMode, and the first bitmap is asked
\* for: the dashboard in MODE_DASHBOARD; in MODE_IMAGE the photo when
\* totalImages > 0, else currentMode = MODE_DASHBOARD and the dashboard
PollRefresh(r) ==
    /\ RefreshNeeded(r.r, NewMode(r.m) # currentMode, r.i # currentImageIndex)
    /\ serverRefreshVersion' = r.v
    /\ nextPollSeconds' = r.n
    /\ totalImages' = r.t
    /\ currentImageIndex' = r.i
    /\ IF NewMode(r.m) = "MODE_IMAGE" /\ PollFetchesImage(r.t)
       THEN /\ currentMode' = "MODE_IMAGE"
            /\ fetch' = EnterFetch(r.i, "photo", "pollImage")
            /\ cycle' = Logged(Logged(Answered(cycle, "decoded", r),
                                      ModeEvent("MODE_IMAGE")),
                               FetchEvent("photo", r.i))
       ELSE /\ currentMode' = "MODE_DASHBOARD"
            /\ fetch' = EnterFetch(0, "dashboard", "pollDashboard")
            /\ cycle' = Logged(Logged(IF NewMode(r.m) = "MODE_IMAGE"
                                      THEN Logged(Answered(cycle, "decoded", r),
                                                  ModeEvent("MODE_IMAGE"))
                                      ELSE Answered(cycle, "decoded", r),
                                      ModeEvent("MODE_DASHBOARD")),
                               FetchEvent("dashboard", 0))
    /\ pc' = "fetchGet"
    /\ UNCHANGED << lastPollTime, imageBuffer, hasImage, wifiConnected, lastButtonState,
                    clock, pollCaller, pollResult,
                    lastToggle >>

PollDecoded ==
    /\ pc = "poll"
    /\ \E r \in PollResponses : PollNoRefresh(r) \/ PollRefresh(r)

\* fetchImage(currentImageIndex) returned into pollServerForInstructions
PollAfterFetchImage ==
    /\ pc = "fetchRet"
    /\ fetch.ret = "pollImage"
    /\ IF fetch.result
       THEN /\ cycle' = Logged(cycle, DrawImageEvent)
            /\ pollResult' = TRUE
            /\ pc' = "pollRet"
            /\ fetch' = NoFetch
            /\ UNCHANGED currentMode
       ELSE /\ currentMode' = "MODE_DASHBOARD"
            /\ cycle' = Logged(Logged(cycle, ModeEvent("MODE_DASHBOARD")),
                               FetchEvent("dashboard", 0))
            /\ fetch' = EnterFetch(0, "dashboard", "pollDashboard")
            /\ pc' = "fetchGet"
            /\ UNCHANGED pollResult
    /\ UNCHANGED << currentImageIndex, totalImages, serverRefreshVersion,
                    nextPollSeconds, lastPollTime, imageBuffer, hasImage,
                    wifiConnected, lastButtonState, clock, pollCaller,
                    lastToggle >>

\* Faulty variant of PollAfterFetchDashboard: a dashboard that failed is asked
\* for once more
PollAfterFetchDashboardRetries ==
    /\ pc = "fetchRet"
    /\ fetch.ret = "pollDashboard"
    /\ IF fetch.result
       THEN /\ cycle' = Logged(cycle, DrawImageEvent)
            /\ pollResult' = TRUE
            /\ pc' = "pollRet"
            /\ fetch' = NoFetch
       ELSE /\ cycle' = Logged(cycle, FetchEvent("dashboard", 0))
            /\ fetch' = EnterFetch(0, "dashboard", "pollImage")
            /\ pc' = "fetchGet"
            /\ UNCHANGED pollResult
    /\ UNCHANGED << device, lastPollTime, imageBuffer, hasImage, wifiConnected,
                    lastButtonState, clock, pollCaller,
                    lastToggle >>

\* fetchDashboard() returned into pollServerForInstructions: drawImage() or
\* drawDashboard(), return true
PollAfterFetchDashboard ==
    /\ pc = "fetchRet"
    /\ fetch.ret = "pollDashboard"
    /\ cycle' = Logged(cycle, IF fetch.result THEN DrawImageEvent
                                              ELSE DrawDashboardEvent)
    /\ pollResult' = TRUE
    /\ pc' = "pollRet"
    /\ fetch' = NoFetch
    /\ UNCHANGED << device, lastPollTime, imageBuffer, hasImage, wifiConnected,
                    lastButtonState, clock, pollCaller,
                    lastToggle >>

\* the poll returned into setupWiFi(): if (!poll) { currentMode = MODE_DASHBOARD;
\* drawDashboard(); }  lastPollTime = millis()
PollReturnSetup ==
    /\ pc = "pollRet"
    /\ pollCaller = "setup"
    /\ currentMode' = IF pollResult THEN currentMode ELSE "MODE_DASHBOARD"
    /\ lastPollTime' = now
    /\ pc' = "loop"
    /\ pollCaller' = "none"
    /\ pollResult' = FALSE
    /\ cycle' = NoCycle
    /\ UNCHANGED << currentImageIndex, totalImages, serverRefreshVersion,
                    nextPollSeconds, imageBuffer, hasImage, wifiConnected,
                    lastButtonState, clock, fetch,
                    lastToggle >>

\* the poll returned into loop(): lastPollTime = millis(), then delay(50)
PollReturnLoop ==
    /\ pc = "pollRet"
    /\ pollCaller = "loop"
    /\ lastPollTime' = now
    /\ pc' = "delay"
    /\ pollCaller' = "none"
    /\ pollResult' = FALSE
    /\ cycle' = NoCycle
    /\ UNCHANGED << device, imageBuffer, hasImage, wifiConnected,
                    lastButtonState, clock, fetch,
                    lastToggle >>

\* ------------------------------------------------------------------------
\* fetchBitmap(index, mode)
\* ------------------------------------------------------------------------
\* if (len == expectedSize || len == -1)
LengthAccepted(len) == len = ExpectedSize \/ len = -1

\* while (http.connected() && bytesRead < expectedSize && (millis() - startTime < 10000))
StreamContinues(connected, bytesRead, t, startTime) ==
    /\ connected
    /\ bytesRead < ExpectedSize
    /\ U32Lt(U32Sub(t, startTime), U32(ReadDeadlineMs))

\* Faulty variant of ToRead: all that is available is read
ToReadAvailable(available, bytesRead) == available

\* int toRead = min(stream->available(), expectedSize - bytesRead)
ToRead(available, bytesRead) == Min(available, ExpectedSize - bytesRead)

\* Faulty variant of ReadComplete: a body that stops short is taken for whole
ReadCompleteAtLeastShort(bytesRead) == bytesRead >= ShortBody

\* if (bytesRead == expectedSize): the value fetchBitmap returns after the loop
ReadComplete(bytesRead) == bytesRead = ExpectedSize

\* if (http.hasHeader("X-Image-Total")) totalImages = http.header("X-Image-Total").toInt()
HeaderTotal(h, total) == IF h = NoHeader THEN total ELSE h[1]

\* http.GET() is neither 200 nor 404 (a status, or a negative transport error)
FetchHttpError ==
    /\ pc = "fetchGet"
    /\ fetch' = [ fetch EXCEPT !.status = "error", !.result = FALSE ]
    /\ pc' = "fetchRet"
    /\ UNCHANGED << device, lastPollTime, imageBuffer, hasImage, wifiConnected,
                    lastButtonState, clock, pollCaller, pollResult, cycle, lastToggle >>

\* Faulty variant of FetchNotFound: a 404 is handled as any other error
FetchNotFoundKeepsTotal ==
    /\ pc = "fetchGet"
    /\ wifiConnected
    /\ fetch' = [ fetch EXCEPT !.status = "404", !.result = FALSE ]
    /\ pc' = "fetchRet"
    /\ UNCHANGED << device, lastPollTime, imageBuffer, hasImage,
                    wifiConnected, lastButtonState, clock, pollCaller, pollResult, cycle, lastToggle >>

\* http.GET() is 404: totalImages = 0.  (A status is a server's answer: it
\* takes the network, which a device that started offline does not have.)
FetchNotFound ==
    /\ pc = "fetchGet"
    /\ wifiConnected
    /\ totalImages' = 0
    /\ fetch' = [ fetch EXCEPT !.status = "404", !.result = FALSE ]
    /\ pc' = "fetchRet"
    /\ UNCHANGED << currentMode, currentImageIndex, serverRefreshVersion,
                    nextPollSeconds, lastPollTime, imageBuffer, hasImage,
                    wifiConnected, lastButtonState, clock, pollCaller, pollResult, cycle, lastToggle >>

\* http.GET() is 200: the total header is adopted when present; with a length
\* that is accepted the streaming loop is entered, else "Wrong size"
FetchOk ==
    /\ pc = "fetchGet"
    /\ wifiConnected
    /\ \E h \in TotalHeaders, len \in DeclaredLengths :
        /\ totalImages' = HeaderTotal(h, totalImages)
        /\ IF LengthAccepted(len)
           THEN /\ fetch' = [ fetch EXCEPT !.status = "200", !.len = len,
                                           !.bytesRead = 0, !.startTime = now,
                                           !.tag = FreshTag(imageBuffer) ]
                /\ pc' = "fetchStream"
           ELSE /\ fetch' = [ fetch EXCEPT !.status = "200", !.len = len,
                                           !.result = FALSE ]
                /\ pc' = "fetchRet"
    /\ UNCHANGED << currentMode, currentImageIndex, serverRefreshVersion,
                    nextPollSeconds, lastPollTime, imageBuffer, hasImage,
                    wifiConnected, lastButtonState, clock, pollCaller, pollResult, cycle, lastToggle >>

\* one iteration of the loop in which bytes are available and read:
\* c = stream->read(imageBuffer + bytesRead, toRead) = toRead; bytesRead += c.
\* (Its delay(1) is below the resolution of the model's clock.)
StreamRead ==
    /\ pc = "fetchStream"
    /\ StreamContinues(TRUE, fetch.bytesRead, now, fetch.startTime)
    /\ \E available \in Available :
        LET c == ToRead(available, fetch.bytesRead)
        IN  /\ imageBuffer' = StreamWrite(imageBuffer, fetch.bytesRead, c, fetch.tag)
            /\ fetch' = [ fetch EXCEPT !.bytesRead = @ + c ]
    /\ UNCHANGED << device, lastPollTime, hasImage, wifiConnected, lastButtonState, clock,
                    pc, pollCaller, pollResult, cycle, lastToggle >>

\* iterations in which nothing is available (or read() returns no byte): only
\* their delay(1)s pass, TickMs of them
StreamIdle ==
    /\ pc = "fetchStream"
    /\ StreamContinues(TRUE, fetch.bytesRead, now, fetch.startTime)
    /\ Tick
    /\ UNCHANGED << device, lastPollTime, imageBuffer, hasImage, wifiConnected,
                    lastButtonState, pc, pollCaller, pollResult, fetch, cycle, lastToggle >>

\* the loop condition is false (http.connected() is the transport's to say):
\* hasImage = true and return true when all bytes were read, else return false
StreamExit ==
    /\ pc = "fetchStream"
    /\ \E connected \in BOOLEAN :
        ~StreamContinues(connected, fetch.bytesRead, now, fetch.startTime)
    /\ hasImage' = (hasImage \/ ReadComplete(fetch.bytesRead))
    /\ fetch' = [ fetch EXCEPT !.result = ReadComplete(fetch.bytesRead) ]
    /\ pc' = "fetchRet"
    /\ UNCHANGED << device, lastPollTime, imageBuffer, wifiConnected, lastButtonState,
                    clock, pollCaller, pollResult, cycle, lastToggle >>

\* ------------------------------------------------------------------------
\* toggleMode()
\* ------------------------------------------------------------------------
\* Faulty variant of ToggleEnter: the first photo is asked for, fetchImage(0)
ToggleEnterFirstPhoto ==
    IF currentMode = "MODE_DASHBOARD"
    THEN /\ currentMode' = "MODE_IMAGE"
         /\ fetch' = EnterFetch(0, "photo", "toggleImage")
         /\ cycle' = Logged(Logged(Logged(BeginCycle("toggle", DeviceState),
                                          ModeEvent("MODE_IMAGE")),
                                   NotifyEvent("photo")),
                            FetchEvent("photo", 0))
    ELSE /\ currentMode' = "MODE_DASHBOARD"
         /\ fetch' = EnterFetch(0, "dashboard", "toggleDashboard")
         /\ cycle' = Logged(Logged(Logged(BeginCycle("toggle", DeviceState),
                                          ModeEvent("MODE_DASHBOARD")),
                                   NotifyEvent("dashboard")),
                            FetchEvent("dashboard", 0))

\* Faulty variant of ToggleEnter: what the toggle leaves is reported,
\* notifyServerModeChange with the old mode
ToggleEnterTellsOldMode ==
    IF currentMode = "MODE_DASHBOARD"
    THEN /\ currentMode' = "MODE_IMAGE"
         /\ fetch' = EnterFetch(currentImageIndex, "photo", "toggleImage")
         /\ cycle' = Logged(Logged(Logged(BeginCycle("toggle", DeviceState),
                                          ModeEvent("MODE_IMAGE")),
                                   NotifyEvent("dashboard")),
                            FetchEvent("photo", currentImageIndex))
    ELSE /\ currentMode' = "MODE_DASHBOARD"
         /\ fetch' = EnterFetch(0, "dashboard", "toggleDashboard")
         /\ cycle' = Logged(Logged(Logged(BeginCycle("toggle", DeviceState),
                                          ModeEvent("MODE_DASHBOARD")),
                                   NotifyEvent("photo")),
                            FetchEvent("dashboard", 0))

\* toggleMode() up to its first fetch.  From MODE_DASHBOARD: currentMode =
\* MODE_IMAGE, notify "photo", fetchImage(currentImageIndex).  Otherwise:
\* currentMode = MODE_DASHBOARD, notify "dashboard", fetchDashboard().
ToggleEnter ==
    IF currentMode = "MODE_DASHBOARD"
    THEN /\ currentMode' = "MODE_IMAGE"
         /\ fetch' = EnterFetch(currentImageIndex, "photo", "toggleImage")
         /\ cycle' = Logged(Logged(Logged(BeginCycle("toggle", DeviceState),
                                          ModeEvent("MODE_IMAGE")),
                                   NotifyEvent("photo")),
                            FetchEvent("photo", currentImageIndex))
    ELSE /\ currentMode' = "MODE_DASHBOARD"
         /\ fetch' = EnterFetch(0, "dashboard", "toggleDashboard")
         /\ cycle' = Logged(Logged(Logged(BeginCycle("toggle", DeviceState),
                                          ModeEvent("MODE_DASHBOARD")),
                                   NotifyEvent("dashboard")),
                            FetchEvent("dashboard", 0))

\* Faulty variant of ToggleAfterFetchImage: the dashboard is fetched before
\* the server is told
ToggleAfterFetchImageTellsLate ==
    /\ pc = "fetchRet"
    /\ fetch.ret = "toggleImage"
    /\ IF fetch.result
       THEN /\ cycle' = Logged(cycle, DrawImageEvent)
            /\ pc' = "toggleRet"
            /\ fetch' = NoFetch
            /\ UNCHANGED currentMode
       ELSE /\ currentMode' = "MODE_DASHBOARD"
            /\ cycle' = Logged(Logged(Logged(cycle, ModeEvent("MODE_DASHBOARD")),
                                      FetchEvent("dashboard", 0)),
                               NotifyEvent("dashboard"))
            /\ fetch' = EnterFetch(0, "dashboard", "toggleDashboard")
            /\ pc' = "fetchGet"
    /\ UNCHANGED << currentImageIndex, totalImages, serverRefreshVersion,
                    nextPollSeconds, lastPollTime, imageBuffer, hasImage,
                    wifiConnected, lastButtonState, clock, pollCaller, pollResult,
                    lastToggle >>

\* fetchImage(currentImageIndex) returned into toggleMode: drawImage(), or
\* currentMode = MODE_DASHBOARD, notify "dashboard", fetchDashboard()
ToggleAfterFetchImage ==
    /\ pc = "fetchRet"
    /\ fetch.ret = "toggleImage"
    /\ IF fetch.result
       THEN /\ cycle' = Logged(cycle, DrawImageEvent)
            /\ pc' = "toggleRet"
            /\ fetch' = NoFetch
            /\ UNCHANGED currentMode
       ELSE /\ currentMode' = "MODE_DASHBOARD"
            /\ cycle' = Logged(Logged(Logged(cycle, ModeEvent("MODE_DASHBOARD")),
                                      NotifyEvent("dashboard")),
                               FetchEvent("dashboard", 0))
            /\ fetch' = EnterFetch(0, "dashboard", "toggleDashboard")
            /\ pc' = "fetchGet"
    /\ UNCHANGED << currentImageIndex, totalImages, serverRefreshVersion,
                    nextPollSeconds, lastPollTime, imageBuffer, hasImage,
                    wifiConnected, lastButtonState, clock, pollCaller, pollResult,
                    lastToggle >>

\* Faulty variant of ToggleAfterFetchDashboard: drawImage() whatever
\* fetchDashboard() returned
ToggleAfterFetchDashboardAlwaysDraws ==
    /\ pc = "fetchRet"
    /\ fetch.ret = "toggleDashboard"
    /\ cycle' = Logged(cycle, DrawImageEvent)
    /\ pc' = "toggleRet"
    /\ fetch' = NoFetch
    /\ UNCHANGED << device, lastPollTime, imageBuffer, hasImage, wifiConnected,
                    lastButtonState, clock, pollCaller, pollResult,
                    lastToggle >>

\* fetchDashboard() returned into toggleMode: drawImage() or drawDashboard()
ToggleAfterFetchDashboard ==
    /\ pc = "fetchRet"
    /\ fetch.ret = "toggleDashboard"
    /\ cycle' = Logged(cycle, IF fetch.result THEN DrawImageEvent
                                              ELSE DrawDashboardEvent)
    /\ pc' = "toggleRet"
    /\ fetch' = NoFetch
    /\ UNCHANGED << device, lastPollTime, imageBuffer, hasImage, wifiConnected,
                    lastButtonState, clock, pollCaller, pollResult,
                    lastToggle >>

\* ------------------------------------------------------------------------
\* loop()
\* ------------------------------------------------------------------------
\* currentButtonState == LOW && lastButtonState == HIGH && millis() - lastButtonPress > 300.
\* lastButtonPress is 0 at first and then the time of a button check; the first
\* check comes SetupDelayA + SetupDelayB + SetupDelayC > DebounceMs after the
\* start, and between two checks lies a delay of the loop, TickMs > DebounceMs
\* in the model: the third conjunct holds at every check and lastButtonPress
\* is not kept.  (In a long run two checks can be a whole number of wraps
\* apart on the model's clock; on the device they are milliseconds off it.)
ButtonPressed(currentButtonState, last) ==
    /\ currentButtonState = "LOW"
    /\ last = "HIGH"

\* Faulty variant of IsDue: millis() > lastPollTime + pollIntervalMs, which
\* is not the same once millis() has wrapped
IsDueNoWrap(t, last, seconds) ==
    U32Gt(t, U32Add(last, U32Mul(U32(seconds), MsPerSecond)))

\* if (millis() - lastPollTime > pollIntervalMs), with
\* pollIntervalMs = (unsigned long)nextPollSeconds * 1000UL
IsDue(t, last, seconds) ==
    U32Gt(U32Sub(t, last), U32Mul(U32(seconds), MsPerSecond))

\* after toggleMode() returned: lastPollTime = 0
ResetPollTimer == U32(0)

\* the button is pressed: lastButtonPress = millis(); toggleMode() is entered
LoopButtonPress ==
    /\ pc = "loop"
    /\ ButtonPressed("LOW", lastButtonState)
    /\ ToggleEnter
    /\ pc' = "fetchGet"
    /\ UNCHANGED << currentImageIndex, totalImages, serverRefreshVersion,
                    nextPollSeconds, lastPollTime, imageBuffer, hasImage,
                    wifiConnected, lastButtonState, clock, pollCaller, pollResult,
                    lastToggle >>

\* toggleMode() returned into loop(): lastPollTime = 0;
\* lastButtonState = currentButtonState
LoopAfterToggle ==
    /\ pc = "toggleRet"
    /\ lastPollTime' = ResetPollTimer
    /\ lastButtonState' = "LOW"
    /\ lastToggle' = [ valid |-> TRUE, mode0 |-> cycle.pre.mode,
                       index0 |-> cycle.pre.imageIndex, events |-> cycle.events ]
    /\ cycle' = NoCycle
    /\ pc' = "sched"
    /\ UNCHANGED << device, imageBuffer, hasImage, wifiConnected,
                    clock, pollCaller, pollResult, fetch >>

\* no press is taken: lastButtonState = currentButtonState
LoopNoPress ==
    /\ pc = "loop"
    /\ \E currentButtonState \in { "LOW", "HIGH" } :
        /\ ~ButtonPressed(currentButtonState, lastButtonState)
        /\ lastButtonState' = currentButtonState
    /\ pc' = "sched"
    /\ UNCHANGED << device, lastPollTime, imageBuffer, hasImage, wifiConnected,
                    clock, pollCaller, pollResult, fetch, cycle, lastToggle >>

\* if (!wifiConnected) { delay(50); return; }
LoopOffline ==
    /\ pc = "sched"
    /\ ~wifiConnected
    /\ pc' = "delay"
    /\ UNCHANGED << device, lastPollTime, imageBuffer, hasImage, wifiConnected,
                    lastButtonState, clock, pollCaller, pollResult, fetch, cycle, lastToggle >>

\* the poll is due: pollServerForInstructions() is entered
LoopPollDue ==
    /\ pc = "sched"
    /\ wifiConnected
    /\ IsDue(now, lastPollTime, nextPollSeconds)
    /\ cycle' = BeginCycle("poll", NoState)
    /\ lastToggle' = NoToggle
    /\ pollCaller' = "loop"
    /\ pc' = "poll"
    /\ UNCHANGED << device, lastPollTime, imageBuffer, hasImage, wifiConnected,
                    lastButtonState, clock, pollResult, fetch >>

\* the poll is not due
LoopPollNotDue ==
    /\ pc = "sched"
    /\ wifiConnected
    /\ ~IsDue(now, lastPollTime, nextPollSeconds)
    /\ pc' = "delay"
    /\ UNCHANGED << device, lastPollTime, imageBuffer, hasImage, wifiConnected,
                    lastButtonState, clock, pollCaller, pollResult, fetch, cycle, lastToggle >>

\* delay(50) returns after 50 ms or more: the model lets TickMs pass
LoopDelay ==
    /\ pc = "delay"
    /\ Tick
    /\ pc' = "loop"
    /\ UNCHANGED << device, lastPollTime, imageBuffer, hasImage, wifiConnected,
                    lastButtonState, pollCaller, pollResult, fetch, cycle, lastToggle >>

\* a request (the poll's or a bitmap's http.GET()) takes TickMs before it is answered
NetworkWait ==
    /\ pc \in { "poll", "fetchGet" }
    /\ Tick
    /\ UNCHANGED << device, lastPollTime, imageBuffer, hasImage, wifiConnected,
                    lastButtonState, pc, pollCaller, pollResult, fetch, cycle, lastToggle >>

\* ------------------------------------------------------------------------
\* The program
\* ------------------------------------------------------------------------
Next ==
    \/ Setup
    \/ SetupWiFiOffline
    \/ SetupWiFiConnected
    \/ PollFailed
    \/ PollDecoded
    \/ PollAfterFetchImage
    \/ PollAfterFetchDashboard
    \/ PollReturnSetup
    \/ PollReturnLoop
    \/ FetchHttpError
    \/ FetchNotFound
    \/ FetchOk
    \/ StreamRead
    \/ StreamIdle
    \/ StreamExit
    \/ ToggleAfterFetchImage
    \/ ToggleAfterFetchDashboard
    \/ LoopButtonPress
    \/ LoopAfterToggle
    \/ LoopNoPress
    \/ LoopOffline
    \/ LoopPollDue
    \/ LoopPollNotDue
    \/ LoopDelay
    \/ NetworkWait

Spec == Init /\ [][Next]_vars

\* the same program on the clock that wraps
LongRun == LongRunInit /\ [][Next]_vars

\* The thread of control moves on: http.GET() returns by its timeout
\* (setTimeout), the streaming loop ends by its deadline, delay() returns.
Fairness == WF_vars(Next /\ pc' # pc)

LiveSpec == LongRun /\ Fairness

\* every variable stays in its type
TypeOK ==
    /\ currentMode \in { "MODE_DASHBOARD", "MODE_IMAGE" }
    /\ currentImageIndex \in 0..MaxIndex
    /\ totalImages \in 0..MaxTotal
    /\ serverRefreshVersion \in { 0 } \cup Versions
    /\ nextPollSeconds \in PollSeconds
    /\ BufLen(imageBuffer) = ExpectedSize
    /\ hasImage \in BOOLEAN
    /\ wifiConnected \in BOOLEAN
    /\ lastButtonState \in { "LOW", "HIGH" }
    /\ ticks \in 0..MaxTicks
    /\ longRun \in BOOLEAN

\* ------------------------------------------------------------------------
\* Reading a handler's events
\* ------------------------------------------------------------------------
IsFetch(e) == e.op = "fetch"

IsNotify(e) == e.op = "notify"

\* the bitmap requests, in order
Requests(ev) == SelectSeq(ev, IsFetch)

\* the set-mode notifications, in order
Notifications(ev) == SelectSeq(ev, IsNotify)

\* the mode named by the last notification
LastNotified(ev) == Notifications(ev)[Len(Notifications(ev))].mode

\* a photo request returned false: what follows it is not drawImage()
PhotoFetchFailed(ev) ==
    \E i \in 1..(Len(ev) - 1) :
        /\ ev[i].op = "fetch"
        /\ ev[i].mode = "photo"
        /\ ev[i + 1].op # "drawImage"

\* a handler has run to its end: its events are complete
PollEnded == pc = "pollRet"

ToggleEnded == pc = "toggleRet"

\* ------------------------------------------------------------------------
\* C1: a bitmap fetch that does not succeed leaves imageBuffer byte for byte
\* as it was before the fetch.
\* The code does not do this: the streaming loop writes into imageBuffer
\* itself, so a transfer that stops short has overwritten the front of it.
\* ------------------------------------------------------------------------
C1_FailedFetchLeavesBuffer ==
    (pc = "fetchRet" /\ ~fetch.result) => imageBuffer = fetch.before

\* ------------------------------------------------------------------------
\* C2: totalImages = 0 implies mode Dashboard and imageIndex 0.  Stated for
\* the states in which a poll that decoded its response, or a toggle, has
\* run to its end (the claim asks it of every state).
\* The code adopts "t" and "i" as they come and keeps MODE_IMAGE when nothing
\* is to be refreshed.
\* ------------------------------------------------------------------------
C2_NoImagesMeansDashboard ==
    ((PollEnded /\ cycle.answer = "decoded") \/ ToggleEnded)
        => (totalImages = 0
                => currentMode = "MODE_DASHBOARD" /\ currentImageIndex = 0)

\* ------------------------------------------------------------------------
\* C3: whenever totalImages > 0, 0 <= imageIndex < totalImages.  Stated for
\* the same states as C2.
\* The code adopts "i" without comparing it with "t".
\* ------------------------------------------------------------------------
C3_IndexBelowTotal ==
    ((PollEnded /\ cycle.answer = "decoded") \/ ToggleEnded)
        => (totalImages > 0
                => 0 <= currentImageIndex /\ currentImageIndex < totalImages)

\* ------------------------------------------------------------------------
\* C4: a decoded poll response with shouldRefresh false, the current mode and
\* the current index: no bitmap is asked for, the mode stays, and
\* refreshVersion, pollIntervalSeconds and totalImages become the response's.
\* ------------------------------------------------------------------------
C4_Case ==
    /\ pc = "poll"
    /\ cycle'.answer = "decoded"
    /\ ~cycle'.resp.r
    /\ NewMode(cycle'.resp.m) = currentMode
    /\ cycle'.resp.i = currentImageIndex

\* C4: a no-refresh poll step asks for no bitmap, keeps the mode and the
\* buffer, and adopts the response's version, interval and total
C4_NoRefreshIsPureSync ==
    [][ C4_Case =>
          /\ pc' = "pollRet"
          /\ fetch' = NoFetch
          /\ cycle'.events = << >>
          /\ imageBuffer' = imageBuffer
          /\ currentMode' = currentMode
          /\ serverRefreshVersion' = cycle'.resp.v
          /\ nextPollSeconds' = cycle'.resp.n
          /\ totalImages' = cycle'.resp.t ]_vars

\* a no-refresh poll has ended and has changed version, interval and total
C4_Witness ==
    /\ PollEnded
    /\ pollCaller = "loop"
    /\ cycle.answer = "decoded"
    /\ ~pollResult
    /\ cycle.events = << >>
    /\ currentMode = "MODE_IMAGE"
    /\ serverRefreshVersion = 5
    /\ nextPollSeconds = 0
    /\ totalImages = 1

\* ------------------------------------------------------------------------
\* C5: a poll that fails (transport error, 404, another status, a document
\* that does not parse) leaves the five fields of DeviceState and imageBuffer
\* unchanged and asks for no bitmap, up to and including its return.
\* ------------------------------------------------------------------------
C5_Case ==
    \/ pc = "poll" /\ cycle'.answer \in PollFailures
    \/ pc = "pollRet" /\ cycle.answer \in PollFailures

\* C5: every step of a failed poll leaves DeviceState, imageBuffer and
\* hasImage as they were and starts no fetch
C5_FailedPollChangesNothing ==
    [][ C5_Case =>
          /\ DeviceState' = DeviceState
          /\ imageBuffer' = imageBuffer
          /\ hasImage' = hasImage
          /\ fetch' = NoFetch
          /\ cycle'.events = << >>
          /\ pc' \in { "pollRet", "loop", "delay" } ]_vars

\* a poll has failed in a state that is not the initial one
C5_Witness ==
    /\ PollEnded
    /\ cycle.answer = "404"
    /\ currentMode = "MODE_IMAGE"
    /\ totalImages = 1
    /\ serverRefreshVersion = 5
    /\ hasImage

\* ------------------------------------------------------------------------
\* C6: in a poll whose response asks for photo mode and is acted on, when
\* totalImages = 0 or the photo fetch fails, the mode is forced to Dashboard,
\* a dashboard bitmap is asked for, and a set-mode notification "dashboard"
\* is sent before the poll ends.
\* The code forces the mode and asks for the dashboard, and sends nothing:
\* pollServerForInstructions never calls notifyServerModeChange.
\* ------------------------------------------------------------------------
C6_Case ==
    /\ PollEnded
    /\ cycle.answer = "decoded"
    /\ pollResult
    /\ cycle.resp.m = "photo"
    /\ (cycle.resp.t = 0 \/ PhotoFetchFailed(cycle.events))

C6_Fallback ==
    /\ currentMode = "MODE_DASHBOARD"
    /\ Requests(cycle.events) # << >>
    /\ Requests(cycle.events)[Len(Requests(cycle.events))] = FetchEvent("dashboard", 0)

\* C6: the poll's fallback forces Dashboard, asks for the dashboard bitmap and
\* tells the server "dashboard"
C6_CascadeNotifies ==
    C6_Case =>
        /\ C6_Fallback
        /\ \E i \in 1..Len(cycle.events) : cycle.events[i] = NotifyEvent("dashboard")

\* ------------------------------------------------------------------------
\* C7: a toggle out of Dashboard entered with totalImages = 0 ends in
\* Dashboard with "dashboard" the last mode reported, whatever the bitmap
\* requests answer.
\* The code asks for the photo without looking at totalImages: when the
\* server answers with a full bitmap the toggle ends in MODE_IMAGE.
\* ------------------------------------------------------------------------
C7_ToggleWithoutImagesFallsBack ==
    (ToggleEnded /\ cycle.pre.mode = "MODE_DASHBOARD" /\ cycle.pre.totalImages = 0)
        => /\ currentMode = "MODE_DASHBOARD"
           /\ LastNotified(cycle.events) = "dashboard"

\* ------------------------------------------------------------------------
\* C8: a toggle out of Dashboard whose photo fetch fails: the mode is set
\* back to Dashboard, then the server is told "dashboard", then the dashboard
\* bitmap is asked for, and the toggle ends in Dashboard.
\* ------------------------------------------------------------------------
C8_Case ==
    /\ ToggleEnded
    /\ cycle.pre.mode = "MODE_DASHBOARD"
    /\ PhotoFetchFailed(cycle.events)

\* C8: the events of such a toggle are, in order: mode Image, notify photo,
\* fetch photo, mode Dashboard, notify dashboard, fetch dashboard, one draw
C8_FallbackInOrder ==
    C8_Case =>
        /\ currentMode = "MODE_DASHBOARD"
        /\ Len(cycle.events) = 7
        /\ SubSeq(cycle.events, 1, 6) =
              << ModeEvent("MODE_IMAGE"), NotifyEvent("photo"),
                 FetchEvent("photo", cycle.pre.imageIndex),
                 ModeEvent("MODE_DASHBOARD"), NotifyEvent("dashboard"),
                 FetchEvent("dashboard", 0) >>
        /\ cycle.events[7].op \in { "drawImage", "drawDashboard" }

\* such a toggle has ended, its dashboard fetch having failed as well
C8_Witness ==
    /\ C8_Case
    /\ cycle.events[Len(cycle.events)] = DrawDashboardEvent

\* ------------------------------------------------------------------------
\* C9: after a toggle the poll is due at the very next check of the timer,
\* whatever the clock and the interval.
\* The code sets lastPollTime = 0, and millis() - 0 > pollIntervalMs is false
\* while the uptime is no more than the interval.
\* ------------------------------------------------------------------------
C9_PollDueAfterToggle ==
    [][ (pc = "toggleRet" /\ wifiConnected)
          => (pc' = "sched" /\ IsDue(now', lastPollTime', nextPollSeconds')) ]_vars

\* ------------------------------------------------------------------------
\* C10: two toggles in a row, no poll between them, bring the mode back.
\* As claimed, from any Dashboard or Image state (C10_TwoTogglesRestoreMode);
\* the code ends a toggle into Image in Dashboard when the photo fetch fails.
\* As amended: when no photo fetch of the two toggles fails, the mode is back,
\* the index has not moved, and the bitmaps asked for are a function of the
\* mode and index the pair started from (so any later pair from that state
\* asks for the same).  Every state a toggle starts from is stable: the code
\* enters MODE_IMAGE only with drawImage() of a photo.
\* ------------------------------------------------------------------------
\* what a pair of toggles asks for, from mode and index
RoundTripRequests(mode, index) ==
    IF mode = "MODE_DASHBOARD"
    THEN << FetchEvent("photo", index), FetchEvent("dashboard", 0) >>
    ELSE << FetchEvent("dashboard", 0), FetchEvent("photo", index) >>

C10_Case == ToggleEnded /\ lastToggle.valid

\* C10 as claimed: after the second toggle the mode is the one the pair
\* started from
C10_TwoTogglesRestoreMode == C10_Case => currentMode = lastToggle.mode0

\* C10 as amended: with no photo fetch failed, the mode and the index are
\* back and the requests are RoundTripRequests of the starting mode and index
C10_TwoTogglesRoundTrip ==
    (C10_Case /\ ~PhotoFetchFailed(lastToggle.events) /\ ~PhotoFetchFailed(cycle.events))
        => /\ currentMode = lastToggle.mode0
           /\ currentImageIndex = lastToggle.index0
           /\ Requests(lastToggle.events) \o Requests(cycle.events)
                = RoundTripRequests(lastToggle.mode0, lastToggle.index0)

\* a pair of toggles out of Image, at an index other than 0, has come back to Image
C10_Witness ==
    /\ C10_Case
    /\ ~PhotoFetchFailed(cycle.events)
    /\ lastToggle.mode0 = "MODE_IMAGE"
    /\ lastToggle.index0 = 1
    /\ currentMode = "MODE_IMAGE"

\* ------------------------------------------------------------------------
\* C11: every drawImage() shows a frame that one successful fetch delivered
\* whole: the fetch that has just returned true wrote every byte of
\* imageBuffer, and hasImage is set.
\* ------------------------------------------------------------------------
\* the step calls drawImage()
DrawsImage ==
    /\ Len(cycle'.events) = Len(cycle.events) + 1
    /\ cycle'.events[Len(cycle'.events)] = DrawImageEvent

\* all of the buffer is the body of the fetch tagged tag
CompleteFrame(b, tag) == tag # 0 /\ b = << Run(ExpectedSize, tag) >>

\* C11: a step that calls drawImage() follows a fetch that returned true and
\* finds hasImage set and imageBuffer wholly that fetch's body
C11_RenderOnlyCompleteFrames ==
    [][ DrawsImage =>
          /\ fetch.result
          /\ hasImage
          /\ CompleteFrame(imageBuffer, fetch.tag)
          /\ imageBuffer' = imageBuffer ]_vars

\* a poll has drawn the dashboard's frame after its photo fetch failed
C11_Witness ==
    /\ PollEnded
    /\ PhotoFetchFailed(cycle.events)
    /\ cycle.events[Len(cycle.events)] = DrawImageEvent
    /\ hasImage
    /\ Len(imageBuffer) = 1

\* ------------------------------------------------------------------------
\* C12: nextPollSeconds is positive in every state: a response whose "n" is
\* zero or negative is clamped or rejected before it is adopted.
\* The code assigns nextPollSeconds = doc["n"] | 30 as it comes, and loop()
\* multiplies it, cast to unsigned long, by 1000.
\* ------------------------------------------------------------------------
C12_PollIntervalPositive == nextPollSeconds > 0

\* ------------------------------------------------------------------------
\* C13: fetchBitmap returns true if and only if exactly ExpectedSize bytes of
\* the body were read before the read deadline; a declared length that is
\* neither ExpectedSize nor -1, a short read, a disconnect and the deadline
\* all make it return false.
\* ------------------------------------------------------------------------
FetchEnded == pc = "fetchRet"

\* C13: at the return of fetchBitmap, true is returned exactly when
\* bytesRead = ExpectedSize; bytes are read only of a 200 whose declared
\* length is accepted; a fetch that returns true has read within the
\* deadline and left its body, whole, in imageBuffer
C13_SuccessIffExactLength ==
    FetchEnded =>
        /\ fetch.result <=> fetch.bytesRead = ExpectedSize
        /\ fetch.bytesRead >= 0 /\ fetch.bytesRead <= ExpectedSize
        /\ fetch.bytesRead > 0 =>
              (fetch.status = "200" /\ fetch.len \in { ExpectedSize, -1 })
        /\ fetch.result =>
              /\ U32Lt(U32Sub(now, fetch.startTime), U32(ReadDeadlineMs))
              /\ imageBuffer = << Run(ExpectedSize, fetch.tag) >>

\* a fetch has returned false at the deadline with a body that stopped short
C13_Witness ==
    /\ FetchEnded
    /\ ~fetch.result
    /\ fetch.bytesRead = ShortBody
    /\ ~U32Lt(U32Sub(now, fetch.startTime), U32(ReadDeadlineMs))

\* ------------------------------------------------------------------------
\* C14: fetchBitmap, whatever it returns, changes no field of DeviceState
\* itself, and neither does the poll's request; DeviceState changes only
\* where the returned result is handled.
\* The code assigns totalImages inside fetchBitmap: from the X-Image-Total
\* header of a 200, and 0 on a 404.
\* ------------------------------------------------------------------------
\* the thread is inside fetchBitmap, or waits for the poll's answer
InRequest ==
    \/ pc \in { "fetchGet", "fetchStream" }
    \/ pc = "poll" /\ pc' = "poll"

\* C14: no step inside fetchBitmap, and no step of the poll's request up to
\* its answer, changes DeviceState
C14_RequestsLeaveDeviceState ==
    [][ InRequest => DeviceState' = DeviceState ]_vars

\* ------------------------------------------------------------------------
\* C16: a decoded poll response with shouldRefresh, or another mode, or
\* another index: currentMode becomes the response's mode and the first
\* bitmap asked for is the dashboard for "dashboard" and the photo at the
\* response's index for "photo"; with a total above 0 and the photo fetched,
\* the poll ends in MODE_IMAGE at the response's index.
\* As claimed (C16_RefreshFetchesResponseMode) the photo is asked for whatever
\* the total; the code asks for it only when totalImages > 0 and otherwise
\* goes straight to the dashboard, as the spec's fallback rule has it.
\* ------------------------------------------------------------------------
\* the step decodes a response that asks for a refresh
C16_Case ==
    /\ pc = "poll"
    /\ cycle'.answer = "decoded"
    /\ RefreshNeeded(cycle'.resp.r, NewMode(cycle'.resp.m) # currentMode,
                     cycle'.resp.i # currentImageIndex)

\* what that step does whatever bitmap it asks for first
C16_Adopts ==
    /\ pc' = "fetchGet"
    /\ cycle'.events[1] = ModeEvent(NewMode(cycle'.resp.m))
    /\ currentImageIndex' = cycle'.resp.i
    /\ Len(Requests(cycle'.events)) = 1

\* a refreshing poll that asked for a photo, got it, and has ended
C16_PhotoFetched ==
    /\ PollEnded
    /\ pollResult
    /\ cycle.resp.m = "photo"
    /\ cycle.resp.t > 0
    /\ ~PhotoFetchFailed(cycle.events)

C16_EndsInImage ==
    [](C16_PhotoFetched =>
          /\ currentMode = "MODE_IMAGE"
          /\ currentImageIndex = cycle.resp.i
          /\ Requests(cycle.events) = << FetchEvent("photo", cycle.resp.i) >>)

\* C16 as claimed: the first request is the photo at the response's index
\* whenever the response's mode is "photo"
C16_RefreshFetchesResponseMode ==
    /\ [][ C16_Case =>
             /\ C16_Adopts
             /\ Requests(cycle'.events)[1] =
                   IF cycle'.resp.m = "photo"
                   THEN FetchEvent("photo", cycle'.resp.i)
                   ELSE FetchEvent("dashboard", 0) ]_vars
    /\ C16_EndsInImage

\* C16 as amended: the first request is the photo at the response's index
\* when the response's mode is "photo" and its total is above 0, and the
\* dashboard otherwise
C16_RefreshFetchesPhotoIfAny ==
    /\ [][ C16_Case =>
             /\ C16_Adopts
             /\ Requests(cycle'.events)[1] =
                   IF cycle'.resp.m = "photo" /\ cycle'.resp.t > 0
                   THEN FetchEvent("photo", cycle'.resp.i)
                   ELSE FetchEvent("dashboard", 0) ]_vars
    /\ C16_EndsInImage

\* a poll out of Dashboard has ended in MODE_IMAGE at index 1
C16_Witness ==
    /\ C16_PhotoFetched
    /\ pollCaller = "loop"
    /\ cycle.resp.i = 1
    /\ currentMode = "MODE_IMAGE"
    /\ cycle.events[Len(cycle.events)] = DrawImageEvent

\* ------------------------------------------------------------------------
\* C18: a bitmap request, for a photo or for the dashboard, answered with
\* 404: fetchBitmap returns false with totalImages = 0, and has changed
\* neither imageBuffer nor currentMode nor currentImageIndex.
\* ------------------------------------------------------------------------
\* the step is the 404 answer of a bitmap request
C18_Case == pc = "fetchGet" /\ fetch'.status = "404"

\* C18: the 404 answer ends the fetch: false is returned, totalImages is 0,
\* and the buffer (still as at the fetch's entry), the mode and the index
\* are untouched
C18_NotFoundZeroesTotal ==
    [][ C18_Case =>
          /\ pc' = "fetchRet"
          /\ ~fetch'.result
          /\ totalImages' = 0
          /\ imageBuffer' = imageBuffer
          /\ imageBuffer = fetch.before
          /\ hasImage' = hasImage
          /\ currentMode' = currentMode
          /\ currentImageIndex' = currentImageIndex ]_vars

\* a dashboard request made in MODE_DASHBOARD with a frame in the buffer has
\* been answered 404
C18_Witness ==
    /\ FetchEnded
    /\ fetch.status = "404"
    /\ fetch.mode = "dashboard"
    /\ totalImages = 0
    /\ hasImage
    /\ currentImageIndex = 1

\* ------------------------------------------------------------------------
\* C19: the poll response decides totalImages: when a poll that decoded its
\* response ends, totalImages is the response's "t", or 0 after a 404 of one
\* of its bitmap requests; an X-Image-Total header never replaces it.
\* The code adopts the header of every 200 bitmap response, after the
\* response's "t" was adopted.
\* ------------------------------------------------------------------------
\* C19: at the end of a poll that decoded its response, totalImages is the
\* response's "t" or 0 (the claim allows 0 only after a 404; a total that is
\* neither refutes it whatever the requests answered)
C19_PollTotalIsAuthoritative ==
    (PollEnded /\ cycle.answer = "decoded")
        => (totalImages = cycle.resp.t \/ totalImages = 0)

\* ------------------------------------------------------------------------
\* C20: every toggle sends a set-mode notification, and the last one it
\* sends names the mode the device is in when the toggle ends ("photo" for
\* MODE_IMAGE, "dashboard" for MODE_DASHBOARD), whatever its fetches return.
\* ------------------------------------------------------------------------
\* the name notifyServerModeChange is given for a mode
ModeName(mode) == IF mode = "MODE_IMAGE" THEN "photo" ELSE "dashboard"

\* C20: at the end of a toggle there is a notification and the last one
\* names currentMode
C20_LastNotificationIsFinalMode ==
    ToggleEnded =>
        /\ Notifications(cycle.events) # << >>
        /\ LastNotified(cycle.events) = ModeName(currentMode)

\* a toggle out of Dashboard has fallen back and drawn the fetched dashboard,
\* after telling the server "photo" and then "dashboard"
C20_Witness ==
    /\ ToggleEnded
    /\ cycle.pre.mode = "MODE_DASHBOARD"
    /\ PhotoFetchFailed(cycle.events)
    /\ Len(Notifications(cycle.events)) = 2
    /\ cycle.events[Len(cycle.events)] = DrawImageEvent

Elapsed(t, last) ==
    IF U32Lt(t, last)
    THEN U32Add(U32Add(U32Sub(<< Limb - 1, Limb - 1 >>, last), U32(1)), t)
    ELSE U32Sub(t, last)

C21_Case ==
    /\ Len(Requests(cycle.events)) >= 1
    /\ Len(Requests(cycle'.events)) > Len(Requests(cycle.events))

\* C21: no handler sends a third bitmap request, and a second request is the
\* dashboard's, sent on the return of a photo fetch that failed
C21_AtMostTwoRequests ==
    [][ /\ Len(Requests(cycle'.events)) <= 2
        /\ C21_Case =>
              /\ pc = "fetchRet"
              /\ fetch.mode = "photo"
              /\ ~fetch.result
              /\ Requests(cycle.events)[1].mode = "photo"
              /\ Requests(cycle'.events)[2].mode = "dashboard"
              /\ fetch'.mode = "dashboard" ]_vars

\* a poll has ended after two requests, the photo and the dashboard both failed
C21_Witness ==
    /\ PollEnded
    /\ cycle.kind = "poll"
    /\ Len(Requests(cycle.events)) = 2
    /\ cycle.events[Len(cycle.events)] = DrawDashboardEvent

\* ------------------------------------------------------------------------
\* C22: lastPollTime is the time at which the last poll returned, whatever
\* the poll returned; so with a positive interval and no toggle since, a poll
\* starts only when more than nextPollSeconds * 1000 ms have passed since the
\* last poll returned, and a server that fails is not polled back to back.
\* The code does set lastPollTime = millis() after every poll.  The time it
\* waits is (unsigned long)nextPollSeconds * 1000UL, a 32-bit product: for an
\* interval above 4294967 s it is a small remainder.
\* ------------------------------------------------------------------------
\* seconds * 1000 as a number, in limbs of which the upper is not reduced
IntervalMs(seconds) ==
    LET lo == (seconds % Limb) * MsPerSecond
    IN  << (seconds \div Limb) * MsPerSecond + (lo \div Limb), lo % Limb >>

\* a poll returns into its caller
C22_PollReturns == pc = "pollRet" /\ pc' # "pollRet"

\* loop() enters a poll, the interval is positive and no toggle has run since
\* the last poll
C22_Case ==
    /\ pc = "sched"
    /\ pc' = "poll"
    /\ nextPollSeconds > 0
    /\ ~lastToggle.valid

\* C22: on the clock of the first minute, which has not wrapped
C22_PollsAreAnIntervalApart ==
    [][ /\ C22_PollReturns => lastPollTime' = now'
        /\ C22_Case => U32Gt(U32Sub(now, lastPollTime),
                             IntervalMs(nextPollSeconds)) ]_vars

\* ------------------------------------------------------------------------
\* C23: in the streaming loop of fetchBitmap 0 <= bytesRead <= ExpectedSize,
\* and every read writes imageBuffer[bytesRead .. bytesRead + c - 1] inside
\* imageBuffer[0 .. ExpectedSize - 1], whatever the transport has available,
\* a body longer than ExpectedSize included; the loop goes on only while
\* bytesRead < ExpectedSize and less than ReadDeadlineMs have passed.
\* ------------------------------------------------------------------------
\* an iteration of the streaming loop has read bytes
C23_Case == pc = "fetchStream" /\ imageBuffer' # imageBuffer

\* C23: bytesRead stays within the buffer, a read changes imageBuffer between
\* the old and the new bytesRead only and does not reach past its end, and
\* no iteration begins with all bytes read or the deadline passed
C23_StreamStaysInBuffer ==
    [][ /\ pc' = "fetchStream" =>
              /\ fetch'.bytesRead >= 0
              /\ fetch'.bytesRead <= ExpectedSize
        /\ imageBuffer' # imageBuffer => pc = "fetchStream"
        /\ C23_Case =>
              /\ fetch.bytesRead >= 0
              /\ fetch'.bytesRead > fetch.bytesRead
              /\ fetch'.bytesRead <= ExpectedSize
              /\ BufLen(imageBuffer') = ExpectedSize
              /\ BufTake(imageBuffer', fetch.bytesRead)
                    = BufTake(imageBuffer, fetch.bytesRead)
              /\ BufDrop(imageBuffer', fetch'.bytesRead)
                    = BufDrop(imageBuffer, fetch'.bytesRead)
        /\ (pc = "fetchStream" /\ pc' = "fetchStream") =>
              /\ fetch.bytesRead < ExpectedSize
              /\ U32Lt(U32Sub(now, fetch.startTime), U32(ReadDeadlineMs))
        /\ (pc = "fetchStream" /\ pc' # "fetchStream") => pc' = "fetchRet" ]_vars

\* the loop has read the whole frame over a buffer that held another one
C23_Witness ==
    /\ pc = "fetchStream"
    /\ fetch.bytesRead = ExpectedSize
    /\ fetch.tag > 1
    /\ imageBuffer = << Run(ExpectedSize, fetch.tag) >>
====
